---- MODULE Spec2Model ----
(***************************************************************************)
(* Model of bluedroid/bluetooth.c: the radio power lifecycle               *)
(* (bt_enable, bt_disable, bt_is_enabled) on top of the power-rail control *)
(* file, the init service-control properties and the raw HCI socket.       *)
(* Each action is one step of one of the three functions; the environment  *)
(* (system calls that may fail) is chosen with \E in the step that calls   *)
(* it.                                                                     *)
(***************************************************************************)
EXTENDS Integers, Sequences, FiniteSets, TLC

(* ---- program constants ---- *)
HCID_START_DELAY_SEC == 5
HCID_STOP_DELAY_USEC == 500000
POLL_ATTEMPTS == 1000
CharY == 89
CharN == 78
Char1 == 49
Char0 == 48
TYPE_BUF_SIZE == 16
TYPE_LEN == 9
HCI_UP == 0

(* ---- bounds of the model ---- *)
MaxFds == 2
MaxSlots == 2
FlagBits == 2

(* ---- value domains ---- *)
\* descriptors the process can get from socket(): 0..2 are the std streams
Fds == 3..(2 + MaxFds)
\* contents the power control file may hold: 'Y', 'N', or an unrecognised byte
Bytes == {CharY, CharN, 0}
\* results of a one-byte read()/write(): error, nothing transferred, one byte
SzValues == {-1, 0, 1}
\* results of a call that returns 0 on success and a negative value on failure
RcValues == {-1, 0}
DevFlags == 0..(2^FlagBits - 1)

VARIABLES
    pc,          \* position of the (single) thread
    op,          \* function being executed: "none", "enable", "disable", "is_enabled"
    ret,         \* local `ret` of the current function, its result once returned
    hci_sock,    \* local `hci_sock` of the current function
    attempt,     \* local `attempt` of bt_enable
    power_file,  \* byte held by BLUETOOTH_POWER_PATH
    hciattach,   \* state of the hciattach service: "stopped" / "running"
    hcid,        \* state of the hcid service
    dev_flags,   \* flags of HCI device HCI_DEV_ID in the kernel
    open_socks,  \* descriptors currently open
    log,         \* stage outcomes of the current call: <<[a |-> stage, r |-> result]>>
    nOpen,       \* socket() calls that returned a descriptor, current call
    nBringUp,    \* HCIDEVUP ioctls issued, current call
    nClose,      \* close() calls, current call
    nBadClose,   \* close() calls on a descriptor that was not open, current call
    nSleep,      \* 10 ms retry sleeps, current call
    last_disable_ok,   \* the call before the current one was bt_disable and returned 0
    backend,           \* power-rail backend the build selects: "file" / "rfkill"
    rfkill_id,         \* static rfkill_id
    rfkill_state_path, \* static rfkill_state_path: slot whose state file it names, -1 for NULL
    rfkill_types,      \* content of /sys/class/rfkill/rfkill<i>/type, slot i at index i + 1
    rfkill_states,     \* byte held by /sys/class/rfkill/rfkill<i>/state
    rfkill_reads       \* what read() returned for each type file the current call
                       \* scanned, in scan order; empty when the call did not scan

vars == <<pc, op, ret, hci_sock, attempt, power_file, hciattach, hcid,
          dev_flags, open_socks, log, nOpen, nBringUp, nClose, nBadClose, nSleep,
          last_disable_ok, backend, rfkill_id, rfkill_state_path, rfkill_types,
          rfkill_states, rfkill_reads>>

env == <<power_file, hciattach, hcid, dev_flags>>
counters == <<nOpen, nBringUp, nClose, nBadClose, nSleep>>
rfk == <<backend, rfkill_id, rfkill_state_path, rfkill_types, rfkill_states,
         rfkill_reads>>
\* state of the three lifecycle functions, untouched by the power-rail calls
lifecycle == <<pc, hci_sock, attempt, hciattach, hcid, dev_flags, open_socks,
               counters, last_disable_ok>>

(* ---- helpers ---- *)
Ev(a, r) == [a |-> a, r |-> r]

Min(S) == CHOOSE x \in S : \A y \in S : x <= y

\* bit `nr` of word `w`, as the mask (w & (1 << nr))
BitAnd1(w, nr) == ((w \div (2^nr)) % 2) * (2^nr)

\* variant: the neighbouring bit is tested
hci_test_bit_WrongBit(nr, flags) == BitAnd1(flags, nr + 1)
\* hci_test_bit(nr, &flags) of hci_lib.h, as called on line 315
hci_test_bit(nr, flags) == BitAnd1(flags, nr)

SetBit(w, nr) == IF BitAnd1(w, nr) = 0 THEN w + 2^nr ELSE w
ClearBit(w, nr) == w - BitAnd1(w, nr)

(* ---- power rail, direct control file ---- *)
\* variant: the two bytes are swapped
PowerByte_Swapped(on) == IF on THEN CharN ELSE CharY
\* byte written by set_bluetooth_power(on)
PowerByte(on) == IF on THEN CharY ELSE CharN

\* return value of set_bluetooth_power, given whether open() gave a
\* descriptor and what write() returned
set_bluetooth_power(openOk, sz) ==
    IF ~openOk THEN -1
    ELSE IF sz # 1 THEN -1
    ELSE 0

\* content of the control file after set_bluetooth_power(on)
PowerFileAfterSet(old, on, openOk, sz) ==
    IF openOk /\ sz = 1 THEN PowerByte(on) ELSE old

\* variant: an unrecognised byte is reported as power-off
check_bluetooth_power_DefaultOff(openOk, sz, buffer) ==
    IF ~openOk THEN -1
    ELSE IF sz # 1 THEN -1
    ELSE IF buffer = CharY THEN 1
    ELSE 0
\* return value of check_bluetooth_power, given the open()/read() results and
\* the byte read
check_bluetooth_power(openOk, sz, buffer) ==
    IF ~openOk THEN -1
    ELSE IF sz # 1 THEN -1
    ELSE IF buffer = CharY THEN 1
    ELSE IF buffer = CharN THEN 0
    ELSE -1

(* ---- HCI socket ---- *)
\* create_hci_sock(): socket() returns the lowest free descriptor, or -1
create_hci_sock(socketOk, opened) ==
    IF socketOk /\ (Fds \ opened) # {} THEN Min(Fds \ opened) ELSE -1

\* close(fd): the set of open descriptors afterwards
CloseFd(opened, fd) == opened \ {fd}

\* variant: the close at `out:` is skipped for the first descriptor
OutCloses_NoClose(sk) == sk > 3
\* the guard of the close at the `out:` label of the three functions
OutCloses(sk) == sk >= 0

\* the `out:` label: if (hci_sock >= 0) close(hci_sock); return ret;
Out ==
    /\ pc' = "returned"
    /\ IF OutCloses(hci_sock)
       THEN /\ open_socks' = CloseFd(open_socks, hci_sock)
            /\ nClose' = nClose + 1
            /\ nBadClose' = IF hci_sock \in open_socks THEN nBadClose ELSE nBadClose + 1
       ELSE UNCHANGED <<open_socks, nClose, nBadClose>>
    /\ UNCHANGED <<op, ret, hci_sock, attempt, env, log, nOpen, nBringUp, nSleep>>
    /\ UNCHANGED <<last_disable_ok, rfk>>

\* a function may be entered when no function is executing
Callable == pc \in {"idle", "returned"}

\* locals and per-call bookkeeping at function entry
Enter(name) ==
    /\ op' = name
    /\ nOpen' = 0 /\ nBringUp' = 0 /\ nClose' = 0 /\ nBadClose' = 0 /\ nSleep' = 0
    /\ last_disable_ok' = (op = "disable" /\ ret = 0)
    /\ UNCHANGED rfk

(* ---- bt_enable ---- *)
\* variant: the result of set_bluetooth_power(1) is not checked
AfterPowerOn_Unchecked(r) == "e_start_hciattach"
\* branch taken after set_bluetooth_power(1)
AfterPowerOn(r) == IF r < 0 THEN "e_out" ELSE "e_start_hciattach"
\* branch taken after property_set("ctl.start", "hciattach")
AfterStartHciattach(r) == IF r < 0 THEN "e_out" ELSE "e_sock"
\* the loop condition of the poll loop
LoopContinues(a) == a > 0
\* variant: the timeout test can never be true
PollTimedOut_Never(a) == a < 0
\* variant: the timeout test is off by one
PollTimedOut_OffByOne(a) == a <= 1
\* the test after the poll loop
PollTimedOut(a) == a = 0
\* variant: the result of create_hci_sock() is not checked in the poll loop
AfterPollSock_Unchecked(sk) == "e_bring_up"
\* branch taken after create_hci_sock() in the poll loop
AfterPollSock(sk) == IF sk < 0 THEN "e_out" ELSE "e_bring_up"
\* variant: the result of property_set("ctl.start", "hcid") is not checked
AfterStartHcid_Unchecked(r) == "e_sleep"
\* branch taken after property_set("ctl.start", "hcid")
AfterStartHcid(r) == IF r < 0 THEN "e_out" ELSE "e_sleep"

bt_enable_power ==
    /\ Callable
    /\ Enter("enable")
    /\ \E openOk \in BOOLEAN, sz \in SzValues :
         LET r == set_bluetooth_power(openOk, sz) IN
         /\ power_file' = PowerFileAfterSet(power_file, TRUE, openOk, sz)
         /\ log' = <<Ev("set_power_on", r)>>
         /\ pc' = AfterPowerOn(r)
    /\ ret' = -1
    /\ hci_sock' = -1
    /\ attempt' = 0
    /\ UNCHANGED <<hciattach, hcid, dev_flags, open_socks>>

bt_enable_start_hciattach ==
    /\ pc = "e_start_hciattach"
    /\ \E r \in RcValues :
         /\ hciattach' = IF r < 0 THEN hciattach ELSE "running"
         /\ log' = Append(log, Ev("start_hciattach", r))
         /\ pc' = AfterStartHciattach(r)
         /\ attempt' = IF r < 0 THEN attempt ELSE POLL_ATTEMPTS
    /\ UNCHANGED <<op, ret, hci_sock, power_file, hcid, dev_flags, open_socks, counters>>
    /\ UNCHANGED <<last_disable_ok, rfk>>

bt_enable_sock ==
    /\ pc = "e_sock"
    /\ \E socketOk \in BOOLEAN :
         LET sk == create_hci_sock(socketOk, open_socks) IN
         /\ hci_sock' = sk
         /\ open_socks' = IF sk < 0 THEN open_socks ELSE open_socks \cup {sk}
         /\ nOpen' = IF sk < 0 THEN nOpen ELSE nOpen + 1
         /\ log' = IF sk < 0 THEN Append(log, Ev("socket", -1)) ELSE log
         /\ pc' = AfterPollSock(sk)
    /\ UNCHANGED <<op, ret, attempt, env, nBringUp, nClose, nBadClose, nSleep>>
    /\ UNCHANGED <<last_disable_ok, rfk>>

bt_enable_bring_up ==
    /\ pc = "e_bring_up"
    /\ nBringUp' = nBringUp + 1
    /\ \E r \in RcValues :
         IF r = 0
         THEN \* break
              /\ dev_flags' = SetBit(dev_flags, HCI_UP)
              /\ log' = Append(log, Ev("bring_up", 0))
              /\ pc' = "e_check"
              /\ UNCHANGED <<attempt, open_socks, nClose, nBadClose, nSleep>>
         ELSE \* close(hci_sock), then the thread waits in usleep(10000)
              /\ open_socks' = CloseFd(open_socks, hci_sock)
              /\ nClose' = nClose + 1
              /\ nBadClose' = IF hci_sock \in open_socks THEN nBadClose ELSE nBadClose + 1
              /\ pc' = "e_usleep"
              /\ UNCHANGED <<attempt, dev_flags, log, nSleep>>
    /\ UNCHANGED <<op, ret, hci_sock, power_file, hciattach, hcid, nOpen>>
    /\ UNCHANGED <<last_disable_ok, rfk>>

\* the 10 ms retry delay is over: attempt--, then the loop condition
bt_enable_usleep ==
    /\ pc = "e_usleep"
    /\ nSleep' = nSleep + 1
    /\ attempt' = attempt - 1
    /\ pc' = IF LoopContinues(attempt - 1) THEN "e_sock" ELSE "e_check"
    /\ UNCHANGED <<op, ret, hci_sock, env, open_socks, log, nOpen, nBringUp, nClose,
                   nBadClose>>
    /\ UNCHANGED <<last_disable_ok, rfk>>

bt_enable_check ==
    /\ pc = "e_check"
    /\ IF PollTimedOut(attempt)
       THEN /\ log' = Append(log, Ev("bring_up", -1))
            /\ pc' = "e_out"
       ELSE /\ log' = log
            /\ pc' = "e_start_hcid"
    /\ UNCHANGED <<op, ret, hci_sock, attempt, env, open_socks, counters>>
    /\ UNCHANGED <<last_disable_ok, rfk>>

bt_enable_start_hcid ==
    /\ pc = "e_start_hcid"
    /\ \E r \in RcValues :
         /\ hcid' = IF r < 0 THEN hcid ELSE "running"
         /\ log' = Append(log, Ev("start_hcid", r))
         /\ pc' = AfterStartHcid(r)
    /\ UNCHANGED <<op, ret, hci_sock, attempt, power_file, hciattach, dev_flags, open_socks,
                   counters>>
    /\ UNCHANGED <<last_disable_ok, rfk>>

\* sleep(HCID_START_DELAY_SEC) is over: ret = 0
bt_enable_sleep ==
    /\ pc = "e_sleep"
    /\ log' = Append(log, Ev("sleep", HCID_START_DELAY_SEC))
    /\ ret' = 0
    /\ pc' = "e_out"
    /\ UNCHANGED <<op, hci_sock, attempt, env, open_socks, counters>>
    /\ UNCHANGED <<last_disable_ok, rfk>>

bt_enable_out ==
    /\ pc = "e_out"
    /\ Out

(* ---- bt_disable ---- *)
\* variant: the result of property_set("ctl.stop", "hcid") is not checked
AfterStopHcid_Unchecked(r) == "d_usleep"
\* branch taken after property_set("ctl.stop", "hcid")
AfterStopHcid(r) == IF r < 0 THEN "d_out" ELSE "d_usleep"
\* branch taken after create_hci_sock()
AfterDisableSock(sk) == IF sk < 0 THEN "d_out" ELSE "d_bring_down"
\* variant: a failed HCIDEVDOWN aborts bt_disable
AfterBringDown_Checked(r) == IF r < 0 THEN "d_out" ELSE "d_stop_hciattach"
\* branch taken after ioctl(HCIDEVDOWN): the result is not looked at
AfterBringDown(r) == "d_stop_hciattach"
\* variant: the result of property_set("ctl.stop", "hciattach") is not checked
AfterStopHciattach_Unchecked(r) == "d_power"
\* branch taken after property_set("ctl.stop", "hciattach")
AfterStopHciattach(r) == IF r < 0 THEN "d_out" ELSE "d_power"
\* variant: ret is set to 0 whatever set_bluetooth_power(0) returned
AfterPowerOff_AlwaysOk(r) == 0
\* value of ret after set_bluetooth_power(0)
AfterPowerOff(r) == IF r < 0 THEN -1 ELSE 0

bt_disable_stop_hcid ==
    /\ Callable
    /\ Enter("disable")
    /\ \E r \in RcValues :
         /\ hcid' = IF r < 0 THEN hcid ELSE "stopped"
         /\ log' = <<Ev("stop_hcid", r)>>
         /\ pc' = AfterStopHcid(r)
    /\ ret' = -1
    /\ hci_sock' = -1
    /\ UNCHANGED <<attempt, power_file, hciattach, dev_flags, open_socks>>

\* usleep(HCID_STOP_DELAY_USEC) is over
bt_disable_usleep ==
    /\ pc = "d_usleep"
    /\ log' = Append(log, Ev("usleep", HCID_STOP_DELAY_USEC))
    /\ pc' = "d_sock"
    /\ UNCHANGED <<op, ret, hci_sock, attempt, env, open_socks, counters>>
    /\ UNCHANGED <<last_disable_ok, rfk>>

bt_disable_sock ==
    /\ pc = "d_sock"
    /\ \E socketOk \in BOOLEAN :
         LET sk == create_hci_sock(socketOk, open_socks) IN
         /\ hci_sock' = sk
         /\ open_socks' = IF sk < 0 THEN open_socks ELSE open_socks \cup {sk}
         /\ nOpen' = IF sk < 0 THEN nOpen ELSE nOpen + 1
         /\ log' = Append(log, Ev("socket", IF sk < 0 THEN -1 ELSE 0))
         /\ pc' = AfterDisableSock(sk)
    /\ UNCHANGED <<op, ret, attempt, env, nBringUp, nClose, nBadClose, nSleep>>
    /\ UNCHANGED <<last_disable_ok, rfk>>

bt_disable_bring_down ==
    /\ pc = "d_bring_down"
    /\ \E r \in RcValues :
         /\ dev_flags' = IF r < 0 THEN dev_flags ELSE ClearBit(dev_flags, HCI_UP)
         /\ log' = Append(log, Ev("bring_down", r))
         /\ pc' = AfterBringDown(r)
    /\ UNCHANGED <<op, ret, hci_sock, attempt, power_file, hciattach, hcid, open_socks, counters>>
    /\ UNCHANGED <<last_disable_ok, rfk>>

bt_disable_stop_hciattach ==
    /\ pc = "d_stop_hciattach"
    /\ \E r \in RcValues :
         /\ hciattach' = IF r < 0 THEN hciattach ELSE "stopped"
         /\ log' = Append(log, Ev("stop_hciattach", r))
         /\ pc' = AfterStopHciattach(r)
    /\ UNCHANGED <<op, ret, hci_sock, attempt, power_file, hcid, dev_flags, open_socks, counters>>
    /\ UNCHANGED <<last_disable_ok, rfk>>

bt_disable_power ==
    /\ pc = "d_power"
    /\ \E openOk \in BOOLEAN, sz \in SzValues :
         LET r == set_bluetooth_power(openOk, sz) IN
         /\ power_file' = PowerFileAfterSet(power_file, FALSE, openOk, sz)
         /\ log' = Append(log, Ev("set_power_off", r))
         /\ ret' = AfterPowerOff(r)
    /\ pc' = "d_out"
    /\ UNCHANGED <<op, hci_sock, attempt, hciattach, hcid, dev_flags, open_socks, counters>>
    /\ UNCHANGED <<last_disable_ok, rfk>>

bt_disable_out ==
    /\ pc = "d_out"
    /\ Out

(* ---- bt_is_enabled ---- *)
\* variant: only a failed power read leaves early
PowerOffOrUnknown_ErrOnly(r) == r = -1
\* variant: only power-off leaves early
PowerOffOrUnknown_OffOnly(r) == r = 0
\* the test after check_bluetooth_power()
PowerOffOrUnknown(r) == r = -1 \/ r = 0
\* branch taken after create_hci_sock()
AfterQuerySock(sk) == IF sk < 0 THEN "q_out" ELSE "q_dev_info"
\* value of ret after ioctl(HCIGETDEVINFO) returned r with the given flags
DevInfoResult(r, flags) == IF r < 0 THEN 0 ELSE hci_test_bit(HCI_UP, flags)

bt_is_enabled_power ==
    /\ Callable
    /\ Enter("is_enabled")
    /\ \E openOk \in BOOLEAN, sz \in SzValues :
         LET r == check_bluetooth_power(openOk, sz, power_file) IN
         /\ log' = <<Ev("check_power", r)>>
         /\ IF PowerOffOrUnknown(r)
            THEN ret' = r /\ pc' = "q_out"
            ELSE ret' = -1 /\ pc' = "q_sock"
    /\ hci_sock' = -1
    /\ UNCHANGED <<attempt, env, open_socks>>

bt_is_enabled_sock ==
    /\ pc = "q_sock"
    /\ \E socketOk \in BOOLEAN :
         LET sk == create_hci_sock(socketOk, open_socks) IN
         /\ hci_sock' = sk
         /\ open_socks' = IF sk < 0 THEN open_socks ELSE open_socks \cup {sk}
         /\ nOpen' = IF sk < 0 THEN nOpen ELSE nOpen + 1
         /\ log' = Append(log, Ev("socket", IF sk < 0 THEN -1 ELSE 0))
         /\ pc' = AfterQuerySock(sk)
    /\ UNCHANGED <<op, ret, attempt, env, nBringUp, nClose, nBadClose, nSleep>>
    /\ UNCHANGED <<last_disable_ok, rfk>>

bt_is_enabled_dev_info ==
    /\ pc = "q_dev_info"
    /\ \E r \in RcValues :
         /\ log' = Append(log, Ev("dev_info", r))
         /\ ret' = DevInfoResult(r, dev_flags)
    /\ pc' = "q_out"
    /\ UNCHANGED <<op, hci_sock, attempt, env, open_socks, counters>>
    /\ UNCHANGED <<last_disable_ok, rfk>>

bt_is_enabled_out ==
    /\ pc = "q_out"
    /\ Out

(* ---- specification ---- *)
Init ==
    /\ pc = "idle"
    /\ op = "none"
    /\ ret = -1
    /\ hci_sock = -1
    /\ attempt = 0
    /\ power_file \in Bytes
    /\ hciattach \in {"stopped", "running"}
    /\ hcid \in {"stopped", "running"}
    /\ dev_flags \in DevFlags
    /\ open_socks = {}
    /\ log = <<>>
    /\ nOpen = 0 /\ nBringUp = 0 /\ nClose = 0 /\ nBadClose = 0 /\ nSleep = 0
    /\ last_disable_ok = FALSE
    \* USE_UGLY_POWER_INTERFACE is 1: the lifecycle runs on the direct file
    /\ backend = "file"
    /\ rfkill_id = -1
    /\ rfkill_state_path = -1
    /\ rfkill_types = <<>>
    /\ rfkill_states = <<>>
    /\ rfkill_reads = <<>>

Next ==
    \/ bt_enable_power
    \/ bt_enable_start_hciattach
    \/ bt_enable_sock
    \/ bt_enable_bring_up
    \/ bt_enable_usleep
    \/ bt_enable_check
    \/ bt_enable_start_hcid
    \/ bt_enable_sleep
    \/ bt_enable_out
    \/ bt_disable_stop_hcid
    \/ bt_disable_usleep
    \/ bt_disable_sock
    \/ bt_disable_bring_down
    \/ bt_disable_stop_hciattach
    \/ bt_disable_power
    \/ bt_disable_out
    \/ bt_is_enabled_power
    \/ bt_is_enabled_sock
    \/ bt_is_enabled_dev_info
    \/ bt_is_enabled_out

Spec == Init /\ [][Next]_vars

TypeOK ==
    /\ pc \in {"idle", "returned", "e_start_hciattach", "e_sock", "e_bring_up",
               "e_usleep", "e_check", "e_start_hcid", "e_sleep", "e_out",
               "d_usleep", "d_sock", "d_bring_down", "d_stop_hciattach", "d_power",
               "d_out", "q_sock", "q_dev_info", "q_out"}
    /\ op \in {"none", "enable", "disable", "is_enabled"}
    /\ ret \in -1..(2^FlagBits)
    /\ hci_sock \in Fds \cup {-1}
    /\ attempt \in 0..POLL_ATTEMPTS
    /\ power_file \in Bytes
    /\ dev_flags \in DevFlags
    /\ open_socks \subseteq Fds

(* ---- power rail, rfkill backend ---- *)
\* the text "bluetooth" that init_rfkill compares with
TypeBluetooth == <<98, 108, 117, 101, 116, 111, 111, 116, 104>>
\* contents a slot's type file may hold: "bluetooth\n", "bluetooth", "wlan\n",
\* "bluetoot\n" (nine bytes that are not "bluetooth") and
\* "bluetooth0123456789\n" (longer than the read buffer, "bluetooth" followed
\* by other bytes)
TypeTexts ==
    { TypeBluetooth \o <<10>>,
      TypeBluetooth,
      <<119, 108, 97, 110, 10>>,
      SubSeq(TypeBluetooth, 1, 8) \o <<10>>,
      TypeBluetooth \o <<48, 49, 50, 51, 52, 53, 54, 55, 56, 57, 10>> }
\* contents a slot's state file may hold: '1', '0', or an unrecognised byte
RfkillBytes == {Char1, Char0, 0}
\* the rfkill class: slots 0 .. n-1 exist, slot i has type text types[i + 1]
SlotConfigs == UNION { [1..n -> TypeTexts] : n \in 0..MaxSlots }

\* read(fd, &buf, sizeof(buf)) of a type file that transfers all it can: the
\* number of bytes read
TypeReadSize(text) == IF Len(text) < TYPE_BUF_SIZE THEN Len(text) ELSE TYPE_BUF_SIZE

\* what read(fd, &buf, sizeof(buf)) of a type file may return: an error, a
\* short read that stops one byte before the ninth, or all it can transfer
TypeReadResults(text) ==
    { -1,
      IF TypeReadSize(text) >= TYPE_LEN THEN TYPE_LEN - 1 ELSE TypeReadSize(text),
      TypeReadSize(text) }

\* variant: the length test is dropped and only the first byte is compared
TypeMatches_FirstByte(text, sz) == sz >= 1 /\ text[1] = TypeBluetooth[1]
\* sz >= 9 && memcmp(buf, "bluetooth", 9) == 0, for a read() of `text` that
\* returned sz
TypeMatches(text, sz) ==
    /\ sz >= TYPE_LEN
    /\ SubSeq(text, 1, TYPE_LEN) = TypeBluetooth

\* whether open() of the type file of slot `id` may give a descriptor: never
\* when the slot does not exist; open() of an existing file may fail as well
TypeOpenResults(types, id) == IF id >= Len(types) THEN {FALSE} ELSE BOOLEAN

\* the for loop of init_rfkill from slot `id` on: the outcomes it can have,
\* one for each way the open() and read() calls can go; an outcome is the
\* return code, the slot bound (-1 if none), the number of type files it
\* tried to open and what each read() returned
RECURSIVE init_rfkill_from(_, _)
init_rfkill_from(types, id) ==
    UNION {
      IF ~openOk
      THEN \* if (fd < 0) return -1
           {[rc |-> -1, id |-> -1, opened |-> id + 1, reads |-> <<>>]}
      ELSE UNION {
             IF TypeMatches(types[id + 1], sz)
             THEN {[rc |-> 0, id |-> id, opened |-> id + 1, reads |-> <<sz>>]}
             ELSE {[s EXCEPT !.reads = <<sz>> \o @] : s \in init_rfkill_from(types, id + 1)}
             : sz \in TypeReadResults(types[id + 1]) }
      : openOk \in TypeOpenResults(types, id) }

init_rfkill(types) == init_rfkill_from(types, 0)

\* rfkill_state_path after asprintf() for slot `id`, whose result the code
\* does not look at: the path of the slot's state file, or still NULL (-1)
\* when the allocation failed
StatePathAfterInit(id) == {id, -1}

\* variant: every call resolves the binding again
NeedsInit_Always(id) == TRUE
\* if (rfkill_id == -1) at the head of both rfkill functions
NeedsInit(id) == id = -1

\* the binding step of both rfkill functions, one outcome for each outcome of
\* the scan and of the allocation of the path: the binding afterwards, whether
\* the function may go on, the number of type files opened by this call and
\* the results of its reads
Resolve(id, path, types) ==
    IF NeedsInit(id)
    THEN UNION {
           IF s.rc = 0
           THEN {[ok |-> TRUE, id |-> s.id, path |-> p, opened |-> s.opened,
                  reads |-> s.reads] : p \in StatePathAfterInit(s.id)}
           ELSE {[ok |-> FALSE, id |-> id, path |-> path, opened |-> s.opened,
                  reads |-> s.reads]}
           : s \in init_rfkill(types) }
    ELSE {[ok |-> TRUE, id |-> id, path |-> path, opened |-> 0, reads |-> <<>>]}

\* whether open(rfkill_state_path, ...) may give a descriptor: not when the
\* binding step failed (open is not reached) or the path is NULL
StateOpenResults(b) == IF b.ok /\ b.path # -1 THEN BOOLEAN ELSE {FALSE}

\* byte written by the rfkill set_bluetooth_power(on)
RfkillByte(on) == IF on THEN Char1 ELSE Char0

\* return value of the rfkill set_bluetooth_power once the binding is resolved
rfkill_set_bluetooth_power(openOk, sz) ==
    IF ~openOk THEN -1
    ELSE IF sz < 0 THEN -1
    ELSE 0

\* return value of the rfkill check_bluetooth_power once the binding is resolved
rfkill_check_bluetooth_power(openOk, sz, buffer) ==
    IF ~openOk THEN -1
    ELSE IF sz # 1 THEN -1
    ELSE IF buffer = Char1 THEN 1
    ELSE IF buffer = Char0 THEN 0
    ELSE -1

(* ---- the power rail on its own: calls of set_bluetooth_power and ---- *)
(* ---- check_bluetooth_power on either backend                     ---- *)
\* record of one power-rail call: which function, its argument, whether the
\* control file was opened, the result of the one-byte transfer (-1 when none
\* was attempted), the value returned and the number of type files opened
Call(a, on, open, sz, r, opened) ==
    [a |-> a, on |-> on, open |-> open, sz |-> sz, r |-> r, opened |-> opened]

\* what the log keeps of the call before the current one: which function, its
\* argument and the value it returned
Summary(c) == [a |-> c.a, on |-> c.on, r |-> c.r]
\* the log keeps a summary of the previous call and the record of the current one
Logged(c) == IF log = <<>> THEN <<c>> ELSE <<Summary(log[Len(log)]), c>>

file_set_power ==
    /\ backend = "file"
    /\ \E on \in BOOLEAN, openOk \in BOOLEAN, sz \in SzValues :
         LET r == set_bluetooth_power(openOk, sz) IN
         /\ power_file' = PowerFileAfterSet(power_file, on, openOk, sz)
         /\ op' = "set_power"
         /\ ret' = r
         /\ log' = Logged(Call("set", on, openOk, IF openOk THEN sz ELSE -1, r, 0))
    /\ UNCHANGED <<lifecycle, rfk>>

file_check_power ==
    /\ backend = "file"
    /\ \E openOk \in BOOLEAN, sz \in SzValues :
         LET r == check_bluetooth_power(openOk, sz, power_file) IN
         /\ op' = "check_power"
         /\ ret' = r
         /\ log' = Logged(Call("check", FALSE, openOk, IF openOk THEN sz ELSE -1, r, 0))
    /\ UNCHANGED <<lifecycle, rfk, power_file>>

rfkill_set_power ==
    /\ backend = "rfkill"
    /\ \E on \in BOOLEAN, b \in Resolve(rfkill_id, rfkill_state_path, rfkill_types) :
       \E openOk \in StateOpenResults(b) :
       \E sz \in IF openOk THEN SzValues ELSE {-1} :
         LET r == IF b.ok THEN rfkill_set_bluetooth_power(openOk, sz) ELSE -1 IN
         /\ rfkill_id' = b.id
         /\ rfkill_state_path' = b.path
         /\ rfkill_reads' = b.reads
         /\ rfkill_states' = IF openOk /\ sz = 1
                             THEN [rfkill_states EXCEPT ![b.path + 1] = RfkillByte(on)]
                             ELSE rfkill_states
         /\ op' = "set_power"
         /\ ret' = r
         /\ log' = Logged(Call("set", on, openOk, sz, r, b.opened))
    /\ UNCHANGED <<lifecycle, backend, rfkill_types, power_file>>

rfkill_check_power ==
    /\ backend = "rfkill"
    /\ \E b \in Resolve(rfkill_id, rfkill_state_path, rfkill_types) :
       \E openOk \in StateOpenResults(b) :
       \E sz \in IF openOk THEN SzValues ELSE {-1} :
         LET r == IF b.ok
                  THEN rfkill_check_bluetooth_power(openOk, sz,
                           IF openOk THEN rfkill_states[b.path + 1] ELSE 0)
                  ELSE -1
         IN
         /\ rfkill_id' = b.id
         /\ rfkill_state_path' = b.path
         /\ rfkill_reads' = b.reads
         /\ op' = "check_power"
         /\ ret' = r
         /\ log' = Logged(Call("check", FALSE, openOk, sz, r, b.opened))
    /\ UNCHANGED <<lifecycle, backend, rfkill_types, rfkill_states, power_file>>

PowerInit ==
    /\ pc = "idle"
    /\ op = "none"
    /\ ret = -1
    /\ hci_sock = -1
    /\ attempt = 0
    /\ hciattach = "stopped"
    /\ hcid = "stopped"
    /\ dev_flags = 0
    /\ open_socks = {}
    /\ log = <<>>
    /\ nOpen = 0 /\ nBringUp = 0 /\ nClose = 0 /\ nBadClose = 0 /\ nSleep = 0
    /\ last_disable_ok = FALSE
    /\ rfkill_id = -1
    /\ rfkill_state_path = -1
    /\ rfkill_reads = <<>>
    /\ \/ /\ backend = "file"
          /\ power_file \in Bytes
          /\ rfkill_types = <<>>
          /\ rfkill_states = <<>>
       \/ /\ backend = "rfkill"
          /\ power_file = 0
          /\ rfkill_types \in SlotConfigs
          \* every state file starts with the same byte
          /\ rfkill_states \in { [i \in 1..Len(rfkill_types) |-> b] : b \in RfkillBytes }

PowerNext ==
    \/ file_set_power
    \/ file_check_power
    \/ rfkill_set_power
    \/ rfkill_check_power

PowerSpec == PowerInit /\ [][PowerNext]_vars

(* ---- properties ---- *)
Has(a, r) == \E i \in DOMAIN log : log[i] = Ev(a, r)
Attempted(a) == \E i \in DOMAIN log : log[i].a = a
Returned(name) == op = name /\ pc = "returned"

\* C1: bt_enable aborts on its first failing stage (power-rail write,
\* hciattach start, bring-up poll timeout, hcid start): the failed stage is the
\* last stage of the call and the call returns failure; when
\* set_bluetooth_power(1) or the hciattach start fails no socket is opened and
\* no bring-up is attempted, and when set_bluetooth_power(1) fails no service
\* call is made either.
C1_EnableAbortsOnFirstFailure ==
    op = "enable" =>
        /\ \A i \in DOMAIN log :
               log[i].r < 0 =>
                   /\ i = Len(log)
                   /\ pc \in {"e_out", "returned"}
                   /\ ret = -1
        /\ Has("set_power_on", -1) =>
               /\ Len(log) = 1
               /\ nOpen = 0 /\ nBringUp = 0 /\ open_socks = {}
        /\ Has("start_hciattach", -1) =>
               /\ Len(log) = 2
               /\ nOpen = 0 /\ nBringUp = 0
        /\ Has("bring_up", -1) => ~Attempted("start_hcid")

C1_Witness ==
    /\ Returned("enable")
    /\ Has("set_power_on", -1)
    /\ ret = -1

\* C2: bt_disable aborts on its first fatal failure: a failed hcid stop, a
\* failed socket creation or a failed hciattach stop is the last stage of the
\* call, which returns failure; so after a failed hcid stop there is no socket,
\* no bring-down, no hciattach stop and no power write, after a failed socket
\* creation no hciattach stop and no power write, after a failed hciattach stop
\* no power write.
C2_DisableAbortsOnFirstFatalFailure ==
    op = "disable" =>
        /\ \A i \in DOMAIN log :
               (log[i].r < 0 /\ log[i].a # "bring_down") =>
                   /\ i = Len(log)
                   /\ pc \in {"d_out", "returned"}
                   /\ ret = -1
        /\ Has("stop_hcid", -1) =>
               /\ Len(log) = 1
               /\ nOpen = 0 /\ open_socks = {}
        /\ Has("socket", -1) =>
               /\ ~Attempted("bring_down")
               /\ ~Attempted("stop_hciattach")
               /\ ~Attempted("set_power_off")
        /\ Has("stop_hciattach", -1) => ~Attempted("set_power_off")

C2_Witness ==
    /\ Returned("disable")
    /\ Has("stop_hcid", -1)
    /\ ret = -1

\* C3: the poll loop of bt_enable is bounded: a call makes at most 1000
\* bring-up attempts (and opens at most 1000 sockets), and once all 1000 have
\* failed the call makes no further attempt: after the retry delay of the
\* last one the loop is left, the call reports the timeout, returns failure
\* and never starts hcid.
C3_PollLoopBounded ==
    op = "enable" =>
        /\ nBringUp <= POLL_ATTEMPTS
        /\ nOpen <= POLL_ATTEMPTS
        /\ (nBringUp = POLL_ATTEMPTS /\ ~Has("bring_up", 0)) =>
               /\ pc \in {"e_usleep", "e_check", "e_out", "returned"}
               /\ pc = "e_usleep" => attempt = 1
               /\ pc = "e_check" => attempt = 0
               /\ ret = -1
               /\ ~Attempted("start_hcid")
               /\ pc \in {"e_out", "returned"} => Has("bring_up", -1)

C3_Witness ==
    /\ Returned("enable")
    /\ nBringUp = POLL_ATTEMPTS
    /\ Has("bring_up", -1)
    /\ ret = -1

\* C4: if bring-up first succeeds on attempt k (1 <= k <= 1000), bt_enable has
\* opened exactly k sockets and issued exactly k bring-ups (k - 1 of them
\* followed by the retry sleep), makes no further attempt, reports no timeout
\* and goes on to start hcid.
C4_SuccessOnAttemptK ==
    (op = "enable" /\ Has("bring_up", 0)) =>
        LET k == POLL_ATTEMPTS - attempt + 1 IN
        /\ k \in 1..POLL_ATTEMPTS
        /\ nOpen = k /\ nBringUp = k
        /\ nSleep = k - 1
        /\ ~Has("bring_up", -1)
        /\ pc \in {"e_check", "e_start_hcid", "e_sleep", "e_out", "returned"}
        /\ pc \in {"e_out", "returned"} => Attempted("start_hcid")

C4_Witness ==
    /\ Returned("enable")
    /\ Has("bring_up", 0)
    /\ nBringUp = POLL_ATTEMPTS
    /\ Attempted("start_hcid")

\* C5 as stated: bt_is_enabled returns Disabled (0) whenever the power read
\* yields Off (0) or Unknown (-1).
C5_Original ==
    (Returned("is_enabled") /\ log[1].r \in {-1, 0}) => ret = 0

\* C5 amended: bt_is_enabled returns Disabled (0) when the power read yields
\* Off, and the error value -1 when the power read yields Unknown; in neither
\* case does it return Enabled.
C5_DisabledOrErrorWhenNotOn ==
    Returned("is_enabled") =>
        /\ log[1].r = 0 => ret = 0
        /\ log[1].r = -1 => ret = -1

C5_Witness ==
    /\ Returned("is_enabled")
    /\ log[1] = Ev("check_power", -1)
    /\ ret = -1

\* C6: bt_is_enabled never opens a socket and never issues the info query
\* when the power read yields Off or Unknown.
C6_NoChannelWhenNotOn ==
    (op = "is_enabled" /\ log[1].r \in {-1, 0}) =>
        /\ nOpen = 0
        /\ open_socks = {}
        /\ ~Attempted("socket")
        /\ ~Attempted("dev_info")
        /\ pc \in {"q_out", "returned"}

C6_Witness ==
    /\ Returned("is_enabled")
    /\ log[1] = Ev("check_power", 0)
    /\ nOpen = 0

\* C7: bt_is_enabled returns Enabled (1) only when power is On and the info
\* query succeeded with the up bit set; with power On it returns Disabled (0)
\* when the info query failed, and when it succeeded with the up bit clear.
C7_EnabledOnlyWhenOnAndUp ==
    Returned("is_enabled") =>
        /\ ret >= 1 =>
               /\ ret = 1
               /\ Has("check_power", 1)
               /\ Has("dev_info", 0)
               /\ dev_flags % 2 = 1
        /\ (Has("check_power", 1) /\ Has("dev_info", -1)) => ret = 0
        /\ (Has("check_power", 1) /\ Has("dev_info", 0) /\ dev_flags % 2 = 0) => ret = 0

C7_Witness ==
    /\ Returned("is_enabled")
    /\ ret = 1
    /\ Has("dev_info", 0)

\* C8: when bt_enable, bt_disable or bt_is_enabled has returned, no socket
\* opened during the call is still open.
C8_NoSocketLeak ==
    pc \in {"idle", "returned"} => open_socks = {}

C8_Witness ==
    /\ Returned("enable")
    /\ ret = 0
    /\ nOpen >= 1
    /\ open_socks = {}

\* C9: in bt_disable the outcome of HCIDEVDOWN is ignored: once the socket is
\* open the call goes on to stop hciattach whatever the bring-down returned,
\* and its result is success exactly when the hciattach stop and the
\* power-off write both succeeded.
C9_BringDownIgnored ==
    (op = "disable" /\ Attempted("bring_down")) =>
        /\ pc \in {"d_stop_hciattach", "d_power", "d_out", "returned"}
        /\ pc \in {"d_power", "d_out", "returned"} => Attempted("stop_hciattach")
        /\ pc = "d_power" => Has("stop_hciattach", 0)
        /\ pc = "returned" =>
               /\ Has("stop_hciattach", 0) => Attempted("set_power_off")
               /\ ret = 0 <=> (Has("stop_hciattach", 0) /\ Has("set_power_off", 0))

C9_Witness ==
    /\ Returned("disable")
    /\ Has("bring_down", -1)
    /\ Has("set_power_off", 0)
    /\ ret = 0

\* C10: bt_enable performs no rollback: no step of bt_enable writes power-off
\* to the rail, stops a service or clears the up bit of the device; so once
\* the power write succeeded the rail holds 'Y' for the rest of the call, and
\* once hciattach was started it stays running, also when the call fails.
C10_EnableInv ==
    op = "enable" =>
        /\ Has("set_power_on", 0) => power_file = CharY
        /\ Has("start_hciattach", 0) => hciattach = "running"
        /\ Has("start_hcid", 0) => hcid = "running"

C10_EnableStep ==
    op' = "enable" =>
        /\ power_file' \in {power_file, CharY}
        /\ hciattach = "running" => hciattach' = "running"
        /\ hcid = "running" => hcid' = "running"
        /\ dev_flags % 2 = 1 => dev_flags' % 2 = 1
        /\ ~Attempted("set_power_off")' /\ ~Attempted("bring_down")'
        /\ ~Attempted("stop_hcid")' /\ ~Attempted("stop_hciattach")'

C10_EnableNoRollback == []C10_EnableInv /\ [][C10_EnableStep]_vars

C10_Witness ==
    /\ Returned("enable")
    /\ ret = -1
    /\ Has("start_hcid", -1)
    /\ power_file = CharY
    /\ hciattach = "running"

(* ---- properties of the power rail (PowerSpec) ---- *)
Cur == log[Len(log)]
Prev == log[1]
\* the slot's type is "bluetooth": its type file holds that word, with or
\* without the newline that sysfs appends
IsBluetoothType(text) == text = TypeBluetooth \/ text = TypeBluetooth \o <<10>>
BluetoothSlots == {i \in 1..Len(rfkill_types) : IsBluetoothType(rfkill_types[i])}
\* the slot's type text begins with the nine bytes "bluetooth"
BeginsWithBluetooth(text) ==
    /\ Len(text) >= TYPE_LEN
    /\ \A i \in 1..TYPE_LEN : text[i] = TypeBluetooth[i]
PrefixSlots == {i \in 1..Len(rfkill_types) : BeginsWithBluetooth(rfkill_types[i])}
\* slot i - 1 was read by the scan of the current call, the read returned at
\* least nine bytes and they begin with "bluetooth"
ReadAsBluetooth(i) ==
    /\ i \in DOMAIN rfkill_reads
    /\ rfkill_reads[i] >= TYPE_LEN
    /\ i \in PrefixSlots
\* the byte the control file of the selected backend holds
StoredByte ==
    IF backend = "file" THEN power_file ELSE rfkill_states[rfkill_state_path + 1]
Recognised == IF backend = "file" THEN {CharY, CharN} ELSE {Char1, Char0}

\* C11: round trip on both backends: a check_bluetooth_power whose read
\* succeeds, made right after a set_bluetooth_power(on) that returned success,
\* returns 1 if on and 0 if not.
C11_RoundTrip ==
    (Len(log) = 2 /\ Prev.a = "set" /\ Prev.r = 0
        /\ Cur.a = "check" /\ Cur.open /\ Cur.sz = 1)
    => Cur.r = (IF Prev.on THEN 1 ELSE 0)

\* C12: check_bluetooth_power whose read returns a byte other than the two
\* recognised ones ('Y'/'N' on the direct file, '1'/'0' on rfkill) returns
\* -1 (Unknown), never 1 or 0.
C12_UnrecognisedByteIsUnknown ==
    (log # <<>> /\ Cur.a = "check" /\ Cur.open /\ Cur.sz = 1
        /\ StoredByte \notin Recognised)
    => (Cur.r = -1 /\ ret = -1)

C12_Witness ==
    /\ log # <<>>
    /\ Cur.a = "check" /\ Cur.open /\ Cur.sz = 1
    /\ StoredByte \notin Recognised
    /\ ret = -1

\* C13: on every backend a read or write that transfers fewer bytes than the
\* one byte expected (zero bytes included) makes the call return failure.
C13_ShortTransferFails ==
    (log # <<>> /\ Cur.open /\ Cur.sz # 1) => Cur.r = -1

\* C14 as stated: the rfkill backend binds on first use to the lowest-index
\* slot whose type is "bluetooth": after a first call on a class that has such
\* a slot the binding is resolved, and a resolved rfkill_id (and state path)
\* names the lowest-index slot whose type is "bluetooth".
C14_Original ==
    /\ (backend = "rfkill" /\ log # <<>> /\ BluetoothSlots # {}) => rfkill_id # -1
    /\ rfkill_id # -1 =>
           /\ rfkill_id + 1 \in BluetoothSlots
           /\ \A i \in BluetoothSlots : rfkill_id + 1 <= i
           /\ rfkill_state_path = rfkill_id

\* C14 amended: a call that finds the binding unresolved scans the slots in
\* ascending order from 0 and binds to the lowest-index slot whose type read
\* returns at least nine bytes that begin with "bluetooth" (later bytes are
\* not looked at; a slot whose type read fails or is short is passed over).
\* The scan ends without a binding at the first type file that cannot be
\* opened, at the latest that of the first slot that does not exist; the call
\* then fails and the binding stays unresolved.  The binding is cached: once
\* resolved, rfkill_id and the state path never change and no later call
\* opens a type file again.  The state path names the state file of the bound
\* slot, unless its allocation failed: then it stays NULL and every call
\* fails without opening a state file.
C14_BindingInv ==
    /\ rfkill_id # -1 =>
           /\ backend = "rfkill"
           /\ rfkill_id + 1 \in PrefixSlots
           /\ rfkill_state_path \in {rfkill_id, -1}
           /\ rfkill_state_path = -1 => (~Cur.open /\ Cur.r = -1)
    /\ rfkill_id = -1 => rfkill_state_path = -1
    /\ (log # <<>> /\ Cur.opened > 0) =>
           IF rfkill_id # -1
           THEN /\ Cur.opened = rfkill_id + 1
                /\ Len(rfkill_reads) = rfkill_id + 1
                /\ ReadAsBluetooth(rfkill_id + 1)
                /\ \A i \in 1..rfkill_id : ~ReadAsBluetooth(i)
           ELSE /\ Cur.opened = Len(rfkill_reads) + 1
                /\ Cur.opened <= Len(rfkill_types) + 1
                /\ \A i \in DOMAIN rfkill_reads : ~ReadAsBluetooth(i)
                /\ ~Cur.open
                /\ Cur.r = -1

C14_BindingStep ==
    /\ rfkill_id # -1 =>
           /\ rfkill_id' = rfkill_id
           /\ rfkill_state_path' = rfkill_state_path
           /\ Cur'.opened = 0
           /\ rfkill_reads' = <<>>
    /\ (backend = "rfkill" /\ rfkill_id = -1) => Cur'.opened > 0

C14_BindingCached == []C14_BindingInv /\ [][C14_BindingStep]_vars

C14_Witness ==
    /\ rfkill_id = 1
    /\ rfkill_state_path = 1
    /\ IsBluetoothType(rfkill_types[1])
    /\ Len(log) = 2
    /\ Cur.opened = 0
    /\ rfkill_reads = <<>>

\* C15 as stated: when no slot of the (finite) rfkill class has type
\* "bluetooth", every call scans, returns failure without touching a state
\* file and leaves the binding unresolved.
C15_Original ==
    (backend = "rfkill" /\ BluetoothSlots = {} /\ log # <<>>) =>
        /\ rfkill_id = -1
        /\ rfkill_state_path = -1
        /\ Cur.r = -1
        /\ ~Cur.open
        /\ Cur.opened >= 1

\* C15 amended: when no slot of the (finite) rfkill class has a type text that
\* begins with the nine bytes "bluetooth", the scan stops at the first type
\* file that cannot be opened, at the latest that of the first slot that does
\* not exist; the call returns failure without touching a state file, the
\* binding stays unresolved, and so every later call scans again.
C15_NoBluetoothSlot ==
    (backend = "rfkill" /\ PrefixSlots = {}) =>
        /\ rfkill_id = -1
        /\ rfkill_state_path = -1
        /\ \A i \in DOMAIN log : log[i].r = -1
        /\ log # <<>> =>
               /\ ~Cur.open
               /\ Cur.opened >= 1
               /\ Cur.opened <= Len(rfkill_types) + 1
               /\ Cur.opened = Len(rfkill_reads) + 1
               /\ ret = -1

C15_Witness ==
    /\ backend = "rfkill"
    /\ PrefixSlots = {}
    /\ Len(rfkill_types) >= 1
    /\ Len(log) = 2
    /\ Prev.r = -1
    /\ Cur.opened = Len(rfkill_types) + 1
    /\ ret = -1

(* ---- properties of the lifecycle (Spec), continued ---- *)
Names == [i \in DOMAIN log |-> log[i].a]
IsPrefix(x, y) == Len(x) <= Len(y) /\ x = SubSeq(y, 1, Len(x))
EnableOrder == <<"set_power_on", "start_hciattach", "bring_up", "start_hcid", "sleep">>
DisableOrder == <<"stop_hcid", "usleep", "socket", "bring_down", "stop_hciattach",
                  "set_power_off">>

\* C16: in bt_enable a failed socket creation in the poll loop is fatal: it is
\* the last stage of the call, which returns failure without starting hcid;
\* every earlier iteration opened one socket, issued one bring-up and slept
\* once, and nothing is opened, brought up or slept on after the failure, also
\* when fewer than 1000 attempts were made.
C16_SocketFailureFatal ==
    (op = "enable" /\ Has("socket", -1)) =>
        /\ log[Len(log)] = Ev("socket", -1)
        /\ pc \in {"e_out", "returned"}
        /\ ret = -1
        /\ hci_sock = -1
        /\ ~Attempted("start_hcid")
        /\ ~Has("bring_up", 0)
        /\ nOpen = POLL_ATTEMPTS - attempt
        /\ nBringUp = nOpen
        /\ nSleep = nOpen

C16_Witness ==
    /\ Returned("enable")
    /\ Has("socket", -1)
    /\ nOpen >= 1
    /\ nOpen < POLL_ATTEMPTS - 1
    /\ ret = -1

\* C17: the stages of a bt_enable call occur in the order power on, hciattach
\* start, bring-up attempts, hcid start, settle delay; sockets are opened only
\* after hciattach was started, hcid is started only after a bring-up of the
\* same call succeeded, and ret is 0 only after hcid was started and the
\* settle delay of HCID_START_DELAY_SEC has elapsed.
C17_EnableOrder ==
    op = "enable" =>
        /\ \/ IsPrefix(Names, EnableOrder)
           \/ Names = <<"set_power_on", "start_hciattach", "socket">>
        /\ (nOpen > 0 \/ nBringUp > 0 \/ Attempted("socket")) =>
               (Has("set_power_on", 0) /\ Has("start_hciattach", 0))
        /\ Attempted("start_hcid") => Has("bring_up", 0)
        /\ ret = 0 =>
               /\ Has("start_hcid", 0)
               /\ log[Len(log)] = Ev("sleep", HCID_START_DELAY_SEC)
               /\ pc \in {"e_out", "returned"}
        /\ Attempted("sleep") => ret = 0

C17_Witness ==
    /\ Returned("enable")
    /\ ret = 0
    /\ Names = EnableOrder

\* C18: the stages of a bt_disable call occur in the order hcid stop, 500 ms
\* delay, socket and bring-down, hciattach stop, power off; the power rail is
\* written only after the hciattach stop succeeded, hciattach is stopped only
\* after bring-down was attempted, and bring-down is attempted only after the
\* hcid stop succeeded and the delay elapsed.
C18_DisableOrder ==
    op = "disable" =>
        /\ IsPrefix(Names, DisableOrder)
        /\ Attempted("set_power_off") => Has("stop_hciattach", 0)
        /\ Attempted("stop_hciattach") => Attempted("bring_down")
        /\ Attempted("bring_down") =>
               /\ Has("stop_hcid", 0)
               /\ Has("usleep", HCID_STOP_DELAY_USEC)
               /\ Has("socket", 0)
        /\ Attempted("usleep") => Has("stop_hcid", 0)

C18_Witness ==
    /\ Returned("disable")
    /\ Names = DisableOrder
    /\ ret = 0

\* C19: every socket opened by a call is closed exactly once: close is never
\* called on a descriptor that is not open, and a returned call has made as
\* many close calls as it opened sockets.
C19_ClosedExactlyOnce ==
    /\ nBadClose = 0
    /\ pc = "returned" => nClose = nOpen

\* C20: when the call before a bt_is_enabled was a bt_disable that returned
\* success, the power file holds 'N'; a bt_is_enabled whose power read gives
\* what the file holds then returns 0 without opening a socket, whatever the
\* bring-down did (whether or not the device still has its up bit set).
C20_DisabledAfterDisable ==
    (op = "is_enabled" /\ last_disable_ok) =>
        /\ power_file = CharN
        /\ log[1].r \in {-1, 0}
        /\ log[1].r = check_bluetooth_power(TRUE, 1, power_file) =>
               /\ pc \in {"q_out", "returned"}
               /\ ret = 0
               /\ nOpen = 0
               /\ open_socks = {}

C20_Witness ==
    /\ Returned("is_enabled")
    /\ last_disable_ok
    /\ log[1] = Ev("check_power", 0)
    /\ dev_flags % 2 = 1
    /\ ret = 0
    /\ nOpen = 0
====
